---- MODULE Spec2Model ----
(***************************************************************************)
(* A model of the Result / AsyncResult library of                          *)
(* workers/registry/registry/default/lib (result.ts, shipped here inside   *)
(* redacted.ts).  The state is the JavaScript heap a caller of the library *)
(* builds: the Ok/Err objects, the promises, the AsyncResult wrappers, the *)
(* promise reactions still to run, and the outcome of the last call.       *)
(***************************************************************************)
EXTENDS Integers, Sequences, FiniteSets, TLC

(* ------------------------------ bounds -------------------------------- *)
MaxVal == 1
MaxReceivers == 1
MaxLen == 3
MaxSources == 2
MaxReaders == 2
MaxObjects == 3
MaxWrappers == 2
MaxSomes == 2
MaxErrors == 1
MaxRequests == 3

VARIABLES heap, promises, asyncs, reactions, aggs, fnCalls, fnRet, log, registry,
          highlighter, requests, call, ret

vars == <<heap, promises, asyncs, reactions, aggs, fnCalls, fnRet, log, registry,
          highlighter, requests, call, ret>>

(* --------------------------- JavaScript values ------------------------- *)
Vals == 0..MaxVal

Undefined == [k |-> "undefined"]
Num(n) == [k |-> "number", n |-> n]
ResultRef(i) == [k |-> "Result", at |-> i]
PromiseRef(p) == [k |-> "Promise", at |-> p]
AsyncRef(a) == [k |-> "AsyncResult", at |-> a]
Array(xs) == [k |-> "Array", xs |-> xs]
Str(s) == [k |-> "string", s |-> s]
ObjectRef(i) == [k |-> "Object", at |-> i]
ErrorObj(msg, cause) == [k |-> "Error", message |-> msg, cause |-> cause]

Scalars == {Num(n) : n \in Vals}

IsPromise(x) == x.k = "Promise"
IsAsyncResult(x) == x.k = "AsyncResult"
IsResult(x) == x.k = "Result"

(* A completion of a call: it returns a value or throws one. *)
Return(x) == [type |-> "return", value |-> x]
Throw(x) == [type |-> "throw", value |-> x]

(* ------------------------------ the world ------------------------------ *)
(* The operators below compute on a world w, a record of the mutable heap, *)
(* and give back [w |-> the world after, c |-> the completion].            *)
World == [heap |-> heap, promises |-> promises, asyncs |-> asyncs,
          reactions |-> reactions, aggs |-> aggs,
          fnCalls |-> fnCalls, fnRet |-> fnRet, log |-> log,
          registry |-> registry]

Out(w, c) == [w |-> w, c |-> c]

(* new Ok(value) / new Err(error): a fresh object, its identity its index. *)
NewOk(w, value) ==
    Out([w EXCEPT !.heap = Append(@, [_tag |-> "Ok", value |-> value])],
        Return(ResultRef(Len(w.heap) + 1)))

NewErr(w, error) ==
    Out([w EXCEPT !.heap = Append(@, [_tag |-> "Err", error |-> error])],
        Return(ResultRef(Len(w.heap) + 1)))

isOk(w, r) == w.heap[r.at]._tag = "Ok"
isErr(w, r) == w.heap[r.at]._tag = "Err"
Payload(o) == IF o._tag = "Ok" THEN o.value ELSE o.error

(* ------------------------------ promises ------------------------------- *)
(* A promise: its state and value, and what the outside world still owes    *)
(* it (how = "none" for a promise only the code settles).                   *)
NoDebt == [how |-> "none", value |-> Undefined]
Owes(how, x) == [how |-> how, value |-> x]

Pending(owed) == [state |-> "pending", value |-> Undefined, owed |-> owed]
Fulfilled(x) == [state |-> "fulfilled", value |-> x, owed |-> NoDebt]
Rejected(x) == [state |-> "rejected", value |-> x, owed |-> NoDebt]

NewPromise(w, rec) ==
    Out([w EXCEPT !.promises = Append(@, rec)],
        Return(PromiseRef(Len(w.promises) + 1)))

(* A handler of a reaction: none (the settlement passes through), or a      *)
(* closure of the library, named by the place that creates it, with the     *)
(* value it captures.                                                       *)
PassThrough == [fn |-> "pass", arg |-> Undefined]
Closure(name, arg) == [fn |-> name, arg |-> arg]

Reaction(src, dst, onF, onR) ==
    [src |-> src, dst |-> dst, onFulfilled |-> onF, onRejected |-> onR]

(* promise.then(onFulfilled, onRejected): a new promise, settled by the     *)
(* reaction once src is settled.                                            *)
PromiseThen(w, src, onF, onR) ==
    LET dst == Len(w.promises) + 1
    IN  Out([w EXCEPT !.promises = Append(@, Pending(NoDebt)),
                      !.reactions = @ \cup {Reaction(src.at, dst, onF, onR)}],
            Return(PromiseRef(dst)))

FulfillPromise(w, p, x) == [w EXCEPT !.promises[p] = Fulfilled(x)]
RejectPromise(w, p, x) == [w EXCEPT !.promises[p] = Rejected(x)]

(* AsyncResult.then: hands both handlers to the wrapped promise.            *)
AsyncResultThenSrc(w, a) == w.asyncs[a.at].promise

(* A then that would run the transform again for every reader.              *)
AsyncResultThenLazy(w, a, onF, onR) ==
    PromiseThen([w EXCEPT !.fnCalls = @ + 1],
                PromiseRef(AsyncResultThenSrc(w, a)), onF, onR)

AsyncResultThen(w, a, onF, onR) ==
    PromiseThen(w, PromiseRef(AsyncResultThenSrc(w, a)), onF, onR)

(* The resolve function of promise p called with x: a thenable is followed  *)
(* through its then (for an AsyncResult, AsyncResult.then), anything else   *)
(* fulfils p.                                                               *)
ResolvePromise(w, p, x) ==
    IF IsPromise(x)
    THEN [w EXCEPT !.reactions =
             @ \cup {Reaction(x.at, p, PassThrough, PassThrough)}]
    ELSE IF IsAsyncResult(x)
    THEN [w EXCEPT !.reactions =
             @ \cup {Reaction(AsyncResultThenSrc(w, x), p,
                              PassThrough, PassThrough)}]
    ELSE FulfillPromise(w, p, x)

(* Promise.resolve(x) for a value that is no thenable.                      *)
PromiseResolve(w, x) == NewPromise(w, Fulfilled(x))

(* new AsyncResult(promise)                                                 *)
NewAsyncResult(w, promise) ==
    Out([w EXCEPT !.asyncs = Append(@, [promise |-> promise.at])],
        Return(AsyncRef(Len(w.asyncs) + 1)))

(* ---------------------------- caller's functions ----------------------- *)
(* The transforms a caller passes in.  ctor is fn.constructor.name;        *)
(* returns says what a call gives back; f is the computation on the        *)
(* payload.                                                                 *)
Transforms == {"id", "next"}
Apply(f, x) ==
    IF f = "next" /\ x.k = "number" THEN Num((x.n + 1) % (MaxVal + 1)) ELSE x

(* A transform for map: a plain function returning a value, a plain        *)
(* function returning a promise, or an async function.                     *)
MapFns ==
    {[ctor |-> "Function", returns |-> "value", f |-> f] : f \in Transforms}
    \cup {[ctor |-> "Function", returns |-> "promise", f |-> f] : f \in Transforms}
    \cup {[ctor |-> "AsyncFunction", returns |-> "promise", f |-> f] : f \in Transforms}

(* fn(x) for a map transform.  An async function's promise is resolved by   *)
(* its return; a plain function's promise is settled by the outside world.  *)
CallMapFn(w, fn, x) ==
    LET w1 == [w EXCEPT !.fnCalls = @ + 1]
        v == Apply(fn.f, x)
        out == IF fn.returns = "value" THEN Out(w1, Return(v))
               ELSE IF fn.ctor = "AsyncFunction"
                    THEN NewPromise(w1, Fulfilled(v))
                    ELSE NewPromise(w1, Pending(Owes("fulfill", v)))
    IN  Out([out.w EXCEPT !.fnRet = out.c.value], out.c)

(* A function for andThen / orElse.  body says what its body returns: a     *)
(* Result, an AsyncResult or a Promise of a Result; an async function       *)
(* wraps that in a promise of its own.                                      *)
ChainFns ==
    {[ctor |-> "Function", body |-> b, tag |-> t, f |-> f] :
        b \in {"Result", "AsyncResult", "Promise"}, t \in {"Ok", "Err"},
        f \in Transforms}
    \cup {[ctor |-> "AsyncFunction", body |-> b, tag |-> t, f |-> f] :
        b \in {"Result", "AsyncResult"}, t \in {"Ok", "Err"}, f \in Transforms}

IsAsyncChainFn(fn) == fn.ctor = "AsyncFunction" \/ fn.body # "Result"

ChainBody(w, fn, x) ==
    LET v == Apply(fn.f, x)
        debt == Owes(IF fn.tag = "Ok" THEN "newOk" ELSE "newErr", v)
    IN  CASE fn.body = "Result" ->
               IF fn.tag = "Ok" THEN NewOk(w, v) ELSE NewErr(w, v)
          [] fn.body = "Promise" -> NewPromise(w, Pending(debt))
          [] fn.body = "AsyncResult" ->
               LET p == NewPromise(w, Pending(debt))
               IN  NewAsyncResult(p.w, p.c.value)

CallChainFn(w, fn, x) ==
    LET w1 == [w EXCEPT !.fnCalls = @ + 1]
        body == ChainBody(w1, fn, x)
        out == IF fn.ctor = "Function" THEN body
               ELSE LET q == NewPromise(body.w, Pending(NoDebt))
                    IN  Out(ResolvePromise(q.w, q.c.value.at, body.c.value), q.c)
    IN  Out([out.w EXCEPT !.fnRet = out.c.value], out.c)

(* ------------------------------- class Ok ------------------------------ *)
(* An Ok.map that would hand back its receiver.                             *)
OkMapReturnsSelf(w, self, fn) == Out(w, Return(self))

OkMap(w, self, fn) ==
    LET result == CallMapFn(w, fn, w.heap[self.at].value)
    IN  IF IsPromise(result.c.value)
        THEN LET t == PromiseThen(result.w, result.c.value,
                                  Closure("Ok.map.then", Undefined), PassThrough)
             IN  NewAsyncResult(t.w, t.c.value)
        ELSE NewOk(result.w, result.c.value)

(* Ok.andThen without the instanceof Promise branch.                       *)
OkAndThenUnwrapped(w, self, fn) ==
    LET result == CallChainFn(w, fn, w.heap[self.at].value)
    IN  result

OkAndThen(w, self, fn) ==
    LET result == CallChainFn(w, fn, w.heap[self.at].value)
    IN  IF IsAsyncResult(result.c.value) THEN result
        ELSE IF IsPromise(result.c.value)
             THEN NewAsyncResult(result.w, result.c.value)
             ELSE result

OkOrElse(w, self, fn) == Out(w, Return(self))

OkMapErr(w, self, fn) == Out(w, Return(self))

(* ------------------------------ class Err ------------------------------ *)
(* Err.map allocating a fresh Err where the code hands back this.          *)
ErrMapCopies(w, self, fn) ==
    IF fn.ctor = "AsyncFunction"
    THEN LET p == PromiseResolve(w, self)
         IN  NewAsyncResult(p.w, p.c.value)
    ELSE NewErr(w, w.heap[self.at].error)

ErrMap(w, self, fn) ==
    IF fn.ctor = "AsyncFunction"
    THEN LET p == PromiseResolve(w, self)
         IN  NewAsyncResult(p.w, p.c.value)
    ELSE Out(w, Return(self))

(* A mapErr that would overwrite the error of its receiver.                 *)
ErrMapErrInPlace(w, self, fn) ==
    LET result == CallMapFn(w, fn, w.heap[self.at].error)
    IN  Out([result.w EXCEPT !.heap[self.at].error = result.c.value], Return(self))

ErrMapErr(w, self, fn) ==
    LET result == CallMapFn(w, fn, w.heap[self.at].error)
    IN  NewErr(result.w, result.c.value)

ErrAndThen(w, self, fn) ==
    IF fn.ctor = "AsyncFunction"
    THEN LET p == PromiseResolve(w, self)
         IN  NewAsyncResult(p.w, p.c.value)
    ELSE Out(w, Return(self))

ErrOrElse(w, self, fn) ==
    LET result == CallChainFn(w, fn, w.heap[self.at].error)
    IN  IF IsAsyncResult(result.c.value) THEN result
        ELSE IF IsPromise(result.c.value)
             THEN NewAsyncResult(result.w, result.c.value)
             ELSE result

(* ----------------------- unwrap / unwrapOr / unwrapErr ------------------ *)
(* The extractors of Ok and of Err, by the class of self.                   *)
unwrap(w, self) ==
    IF isOk(w, self) THEN Out(w, Return(w.heap[self.at].value))
    ELSE Out(w, Throw(ErrorObj("Called unwrap on Err", Undefined)))

(* An unwrapOr that would prefer the default.                               *)
unwrapOrDefaultAlways(w, self, defaultValue) == Out(w, Return(defaultValue))

unwrapOr(w, self, defaultValue) ==
    IF isOk(w, self) THEN Out(w, Return(w.heap[self.at].value))
    ELSE Out(w, Return(defaultValue))

unwrapErr(w, self) ==
    IF isOk(w, self) THEN Out(w, Throw(ErrorObj("Called unwrapErr on Ok", Undefined)))
    ELSE Out(w, Return(w.heap[self.at].error))

(* --------------------------------- match ------------------------------ *)
(* The handlers a caller passes to match: two transforms, sync or async.    *)
Handlers == {[ok |-> o, err |-> e] : o \in MapFns, e \in MapFns}

CallHandler(w, who, fn, x) ==
    LET r == CallMapFn(w, fn, x)
    IN  Out([r.w EXCEPT !.log = Append(@, [who |-> who, arg |-> x])], r.c)

(* A match that would run the err handler first on an Ok.                   *)
matchBoth(w, self, handlers) ==
    IF isOk(w, self)
    THEN LET e == CallHandler(w, "err", handlers.err, w.heap[self.at].value)
         IN  CallHandler(e.w, "ok", handlers.ok, w.heap[self.at].value)
    ELSE CallHandler(w, "err", handlers.err, w.heap[self.at].error)

match(w, self, handlers) ==
    IF isOk(w, self)
    THEN CallHandler(w, "ok", handlers.ok, w.heap[self.at].value)
    ELSE CallHandler(w, "err", handlers.err, w.heap[self.at].error)

(* --------------------------- class AsyncResult ------------------------- *)
(* The promise an async function gives back when its body returns x.        *)
AsyncReturn(w, x) ==
    LET q == NewPromise(w, Pending(NoDebt))
    IN  Out(ResolvePromise(q.w, q.c.value.at, x), q.c)

ThisPromise(w, self) == PromiseRef(w.asyncs[self.at].promise)

(* The four combinators: this.promise.then(async (result) => ...), wrapped  *)
(* in a new AsyncResult.                                                    *)
(* A combinator that would not subscribe to this.promise.                   *)
AsyncCombinatorDropped(w, self, name, fn) ==
    LET p == NewPromise(w, Pending(NoDebt))
    IN  NewAsyncResult(p.w, p.c.value)

AsyncCombinator(w, self, name, fn) ==
    LET t == PromiseThen(w, ThisPromise(w, self), Closure(name, fn), PassThrough)
    IN  NewAsyncResult(t.w, t.c.value)

AsyncMap(w, self, fn) == AsyncCombinator(w, self, "AsyncResult.map.then", fn)
AsyncMapErr(w, self, fn) == AsyncCombinator(w, self, "AsyncResult.mapErr.then", fn)
AsyncAndThen(w, self, fn) == AsyncCombinator(w, self, "AsyncResult.andThen.then", fn)
AsyncOrElse(w, self, fn) == AsyncCombinator(w, self, "AsyncResult.orElse.then", fn)

(* async match(handlers): the method's promise, resolved with what the      *)
(* handler returns once this.promise is settled.                            *)
AsyncMatch(w, self, handlers) ==
    PromiseThen(w, ThisPromise(w, self),
                Closure("AsyncResult.match.await", handlers), PassThrough)

(* async unwrapOr(defaultValue): the method's promise, settled by the rest  *)
(* of its body once this.promise is.                                        *)
AsyncUnwrapOr(w, self, defaultValue) ==
    PromiseThen(w, ThisPromise(w, self),
                Closure("AsyncResult.unwrapOr.await", defaultValue), PassThrough)

(* A map / mapErr callback that would not await what fn returns.            *)
AsyncMapCallbackNoAwait(w, fn, result, onOk) ==
    IF isOk(w, result) = onOk
    THEN LET mapped == CallMapFn(w, fn, Payload(w.heap[result.at]))
             made == IF onOk THEN NewOk(mapped.w, mapped.c.value)
                     ELSE NewErr(mapped.w, mapped.c.value)
         IN  AsyncReturn(made.w, made.c.value)
    ELSE AsyncReturn(w, result)

(* The async callback of map (mapErr): fn runs on the payload of an Ok (an  *)
(* Err); a Promise it returns is awaited, and the rest of the callback runs *)
(* as a reaction of that promise.                                           *)
AsyncMapCallback(w, fn, result, onOk) ==
    IF isOk(w, result) = onOk
    THEN LET mapped == CallMapFn(w, fn, IF onOk THEN w.heap[result.at].value
                                         ELSE w.heap[result.at].error)
         IN  IF IsPromise(mapped.c.value)
             THEN PromiseThen(mapped.w, mapped.c.value,
                              Closure(IF onOk THEN "AsyncResult.map.await"
                                      ELSE "AsyncResult.mapErr.await", Undefined),
                              PassThrough)
             ELSE LET made == IF onOk THEN NewOk(mapped.w, mapped.c.value)
                              ELSE NewErr(mapped.w, mapped.c.value)
                  IN  AsyncReturn(made.w, made.c.value)
    ELSE AsyncReturn(w, result)

(* An andThen / orElse callback that would run fn on either variant.        *)
AsyncChainCallbackAlways(w, fn, result, onOk) ==
    LET next == CallChainFn(w, fn, Payload(w.heap[result.at]))
    IN  IF IsAsyncResult(next.c.value)
        THEN AsyncReturn(next.w, ThisPromise(next.w, next.c.value))
        ELSE AsyncReturn(next.w, next.c.value)

(* The async callback of andThen (orElse): what fn returns is returned, an  *)
(* AsyncResult through its promise.                                         *)
AsyncChainCallback(w, fn, result, onOk) ==
    IF isOk(w, result) = onOk
    THEN LET next == CallChainFn(w, fn, IF onOk THEN w.heap[result.at].value
                                         ELSE w.heap[result.at].error)
         IN  IF IsAsyncResult(next.c.value)
             THEN AsyncReturn(next.w, ThisPromise(next.w, next.c.value))
             ELSE AsyncReturn(next.w, next.c.value)
    ELSE AsyncReturn(w, result)

(* ------------------------- Result.try (tryCatch) ----------------------- *)
(* A thunk returns v or throws v; a catch handler maps the cause through f *)
(* or throws it on.                                                        *)
Thunks == {[throws |-> t, v |-> x] : t \in BOOLEAN, x \in Scalars}
CatchFns == {[throws |-> t, f |-> f] : t \in BOOLEAN, f \in Transforms}
NoCatch == [throws |-> FALSE, f |-> "id"]

CallThunk(thunk) == IF thunk.throws THEN Throw(thunk.v) ELSE Return(thunk.v)
CallCatch(h, cause) ==
    IF h.throws THEN Throw(cause) ELSE Return(Apply(h.f, cause))

TryArgs ==
    {[form |-> "object", try |-> t, catch |-> c] : t \in Thunks, c \in CatchFns}
    \cup {[form |-> "function", try |-> t, catch |-> NoCatch] : t \in Thunks}

(* A try whose default Error would not carry the thrown value as cause.     *)
tryCatchDropsCause(w, args) ==
    LET t == CallThunk(args.try)
    IN  IF t.type = "return" THEN NewOk(w, t.value)
        ELSE IF args.form = "object"
             THEN LET c == CallCatch(args.catch, t.value)
                  IN  IF c.type = "throw" THEN Out(w, c) ELSE NewErr(w, c.value)
             ELSE NewErr(w, ErrorObj("Unexpected exception", Undefined))

tryCatch(w, args) ==
    LET t == CallThunk(args.try)
    IN  IF args.form = "object"
        THEN IF t.type = "return" THEN NewOk(w, t.value)
             ELSE LET c == CallCatch(args.catch, t.value)
                  IN  IF c.type = "throw" THEN Out(w, c) ELSE NewErr(w, c.value)
        ELSE IF t.type = "return" THEN NewOk(w, t.value)
             ELSE NewErr(w, ErrorObj("Unexpected exception", t.value))

(* ----------------------- all / partition / firstOk --------------------- *)
RECURSIVE AllLoop(_, _, _, _)
AllLoop(w, results, i, values) ==
    IF i > Len(results) THEN NewOk(w, Array(values))
    ELSE IF isOk(w, results[i])
         THEN AllLoop(w, results, i + 1,
                      Append(values, w.heap[results[i].at].value))
         ELSE Out(w, Return(results[i]))

(* all keeping the last Err it meets, as firstOk does, not the first.      *)
allLastErr(w, results) ==
    LET errs == {i \in 1..Len(results) : isErr(w, results[i])}
    IN  IF errs = {} THEN AllLoop(w, results, 1, <<>>)
        ELSE Out(w, Return(results[CHOOSE i \in errs : \A j \in errs : j <= i]))

all(w, results) == AllLoop(w, results, 1, <<>>)

RECURSIVE PartitionLoop(_, _, _, _, _)
PartitionLoop(w, results, i, values, errors) ==
    IF i > Len(results)
    THEN IF Len(errors) > 0 THEN NewErr(w, Array(errors))
         ELSE NewOk(w, Array(values))
    ELSE IF isOk(w, results[i])
         THEN PartitionLoop(w, results, i + 1,
                            Append(values, w.heap[results[i].at].value), errors)
         ELSE PartitionLoop(w, results, i + 1, values,
                            Append(errors, w.heap[results[i].at].error))

(* partition stopping at the first Err, as all does.                      *)
partitionShortCircuits(w, results) ==
    LET errs == {i \in 1..Len(results) : isErr(w, results[i])}
    IN  IF errs = {} THEN PartitionLoop(w, results, 1, <<>>, <<>>)
        ELSE NewErr(w, Array(<<w.heap[results[CHOOSE i \in errs :
                                   \A j \in errs : i <= j].at].error>>))

partition(w, results) == PartitionLoop(w, results, 1, <<>>, <<>>)

RECURSIVE FirstOkLoop(_, _, _, _)
FirstOkLoop(w, results, i, lastErr) ==
    IF i > Len(results)
    THEN IF lastErr # Undefined THEN Out(w, Return(lastErr))
         ELSE Out(w, Throw(ErrorObj("firstOk called with empty array", Undefined)))
    ELSE IF isOk(w, results[i]) THEN Out(w, Return(results[i]))
         ELSE FirstOkLoop(w, results, i + 1, results[i])

(* A firstOk that would answer with the first Err instead of the last.      *)
firstOkFirstErr(w, results) ==
    LET r == FirstOkLoop(w, results, 1, Undefined)
    IN  IF r.c.type = "return" /\ isErr(w, r.c.value)
        THEN Out(w, Return(results[1]))
        ELSE r

(* A firstOk that would answer the empty list with an Err.                  *)
firstOkErrOnEmpty(w, results) ==
    IF Len(results) = 0
    THEN NewErr(w, ErrorObj("firstOk called with empty array", Undefined))
    ELSE FirstOkLoop(w, results, 1, Undefined)

firstOk(w, results) == FirstOkLoop(w, results, 1, Undefined)

(* ------------------------------ Promise.all ---------------------------- *)
(* Promise.all(ps): one slot per input, filled by that input's reaction     *)
(* whenever it fulfils; the promise fulfils with the slots once none is     *)
(* left, and rejects with the first rejection.                              *)
Slot(g, i) == [agg |-> g, index |-> i]

PromiseAll(w, ps) ==
    LET n == Len(ps)
        dst == Len(w.promises) + 1
        g == Len(w.aggs) + 1
        rs == {Reaction(ps[i].at, dst,
                        Closure("Promise.all.resolveElement", Slot(g, i)),
                        Closure("Promise.all.reject", Undefined)) : i \in 1..n}
    IN  Out([w EXCEPT
               !.promises = Append(@, IF n = 0 THEN Fulfilled(Array(<<>>))
                                      ELSE Pending(NoDebt)),
               !.aggs = Append(@, [values |-> [i \in 1..n |-> Undefined],
                                   remaining |-> n]),
               !.reactions = @ \cup rs],
            Return(PromiseRef(dst)))

(* --------------------------- class AsyncResult ------------------------- *)
PromisesOf(w, results) ==
    [i \in 1..Len(results) |-> PromiseRef(w.asyncs[results[i].at].promise)]

(* A collection that would wait for its first input only.                  *)
AsyncCollectFirstOnly(w, results, name) ==
    LET pa == PromiseAll(w, SubSeq(PromisesOf(w, results), 1, IF Len(results) = 0 THEN 0 ELSE 1))
        t == PromiseThen(pa.w, pa.c.value, Closure(name, Undefined), PassThrough)
    IN  NewAsyncResult(t.w, t.c.value)

AsyncCollect(w, results, name) ==
    LET pa == PromiseAll(w, PromisesOf(w, results))
        t == PromiseThen(pa.w, pa.c.value, Closure(name, Undefined), PassThrough)
    IN  NewAsyncResult(t.w, t.c.value)

(* AsyncResult.all handing the settled outcomes to Result.firstOk.        *)
AsyncAllByFirstOk(w, results) ==
    AsyncCollect(w, results, "AsyncResult.firstOk.then")

AsyncAll(w, results) == AsyncCollect(w, results, "AsyncResult.all.then")
AsyncPartition(w, results) == AsyncCollect(w, results, "AsyncResult.partition.then")
AsyncFirstOk(w, results) == AsyncCollect(w, results, "AsyncResult.firstOk.then")

(* A thunk for tryPromise: its promise resolves with v, rejects with v, or  *)
(* the thunk throws v before it returns a promise.                          *)
PromiseThunks ==
    {[does |-> d, v |-> x] : d \in {"resolves", "rejects", "throws"}, x \in Scalars}

CallPromiseThunk(w, thunk) ==
    IF thunk.does = "throws" THEN Out(w, Throw(thunk.v))
    ELSE NewPromise(w, Pending(Owes(IF thunk.does = "resolves" THEN "fulfill"
                                    ELSE "reject", thunk.v)))

TryPromiseArgs ==
    {[form |-> "object", try |-> t, catch |-> c] :
        t \in PromiseThunks, c \in CatchFns}
    \cup {[form |-> "function", try |-> t, catch |-> NoCatch] : t \in PromiseThunks}

(* A tryPromise that would wrap every rejection in the default Error.       *)
tryPromiseIgnoresCatch(w, args) ==
    LET t == CallPromiseThunk(w, args.try)
    IN  IF t.c.type = "throw" THEN t
        ELSE LET p1 == PromiseThen(t.w, t.c.value,
                                   Closure("tryPromise.then", Undefined), PassThrough)
                 p2 == PromiseThen(p1.w, p1.c.value, PassThrough,
                                   Closure("tryPromise.catchDefault", Undefined))
             IN  NewAsyncResult(p2.w, p2.c.value)

tryPromise(w, args) ==
    LET t == CallPromiseThunk(w, args.try)
    IN  IF t.c.type = "throw" THEN t
        ELSE LET p1 == PromiseThen(t.w, t.c.value,
                                   Closure("tryPromise.then", Undefined), PassThrough)
                 p2 == PromiseThen(p1.w, p1.c.value, PassThrough,
                                   IF args.form = "object"
                                   THEN Closure("tryPromise.catch", args.catch)
                                   ELSE Closure("tryPromise.catchDefault", Undefined))
             IN  NewAsyncResult(p2.w, p2.c.value)

(* --------------------------- promise reactions ------------------------- *)
(* The closures the library hands to then / catch, run on the settled value. *)
RunClosure(w, h, x) ==
    CASE h.fn = "Ok.map.then" -> NewOk(w, x)
      [] h.fn = "tryPromise.then" -> NewOk(w, x)
      [] h.fn = "tryPromise.catch" ->
           LET c == CallCatch(h.arg, x)
           IN  IF c.type = "throw" THEN Out(w, c) ELSE NewErr(w, c.value)
      [] h.fn = "tryPromise.catchDefault" ->
           NewErr(w, ErrorObj("Unexpected exception", x))
      [] h.fn = "AsyncResult.map.then" -> AsyncMapCallback(w, h.arg, x, TRUE)
      [] h.fn = "AsyncResult.map.await" -> NewOk(w, x)
      [] h.fn = "AsyncResult.mapErr.then" -> AsyncMapCallback(w, h.arg, x, FALSE)
      [] h.fn = "AsyncResult.mapErr.await" -> NewErr(w, x)
      [] h.fn = "AsyncResult.andThen.then" -> AsyncChainCallback(w, h.arg, x, TRUE)
      [] h.fn = "AsyncResult.orElse.then" -> AsyncChainCallback(w, h.arg, x, FALSE)
      [] h.fn = "await" ->
           Out([w EXCEPT !.log = Append(@, [who |-> "reader", arg |-> x])],
               Return(Undefined))
      [] h.fn = "AsyncResult.match.await" -> match(w, x, h.arg)
      [] h.fn = "AsyncResult.unwrapOr.await" -> unwrapOr(w, x, h.arg)
      [] h.fn = "AsyncResult.all.then" -> all(w, x.xs)
      [] h.fn = "AsyncResult.partition.then" -> partition(w, x.xs)
      [] h.fn = "AsyncResult.firstOk.then" -> firstOk(w, x.xs)

IsPending(w, p) == w.promises[p].state = "pending"

(* One reaction job: the handler for the way src settled runs and settles   *)
(* dst with its completion.                                                 *)
RunReaction(w, rx) ==
    LET src == w.promises[rx.src]
        ok == src.state = "fulfilled"
        h == IF ok THEN rx.onFulfilled ELSE rx.onRejected
        w1 == [w EXCEPT !.reactions = @ \ {rx}]
    IN  CASE h.fn = "pass" ->
               IF ok THEN FulfillPromise(w1, rx.dst, src.value)
               ELSE RejectPromise(w1, rx.dst, src.value)
          [] h.fn = "Promise.all.resolveElement" ->
               LET g == h.arg.agg
                   vals == [w1.aggs[g].values EXCEPT ![h.arg.index] = src.value]
                   left == w1.aggs[g].remaining - 1
                   w2 == [w1 EXCEPT !.aggs[g] = [values |-> vals, remaining |-> left]]
               IN  IF left = 0 /\ IsPending(w2, rx.dst)
                   THEN FulfillPromise(w2, rx.dst, Array(vals))
                   ELSE w2
          [] h.fn = "Promise.all.reject" ->
               IF IsPending(w1, rx.dst) THEN RejectPromise(w1, rx.dst, src.value)
               ELSE w1
          [] OTHER ->
               LET out == RunClosure(w1, h, src.value)
               IN  IF out.c.type = "return"
                   THEN ResolvePromise(out.w, rx.dst, out.c.value)
                   ELSE RejectPromise(out.w, rx.dst, out.c.value)

(* The outside world settles a promise it owes.                             *)
SettleOwed(w, p) ==
    LET owed == w.promises[p].owed
    IN  CASE owed.how = "fulfill" -> FulfillPromise(w, p, owed.value)
          [] owed.how = "reject" -> RejectPromise(w, p, owed.value)
          [] owed.how = "newOk" ->
               LET r == NewOk(w, owed.value) IN FulfillPromise(r.w, p, r.c.value)
          [] owed.how = "newErr" ->
               LET r == NewErr(w, owed.value) IN FulfillPromise(r.w, p, r.c.value)

(* -------------------------------- Redacted ----------------------------- *)
(* registry is the WeakMap of the module, a set of entries keyed by the     *)
(* identity of the wrapper; get gives undefined for a key without entry.    *)
RegistryGet(w, self) ==
    IF \E e \in w.registry : e.key = self.at
    THEN (CHOOSE e \in w.registry : e.key = self.at).value
    ELSE Undefined

(* A make that would keep the value on the wrapper itself.                  *)
RedactedMakeOwnField(w, value) ==
    LET at == Len(w.heap) + 1
    IN  Out([w EXCEPT !.heap = Append(@, [proto |-> "proto", value |-> value]),
                      !.registry = @ \cup {[key |-> at, value |-> value]}],
            Return(ObjectRef(at)))

RedactedMake(w, value) ==
    LET at == Len(w.heap) + 1
    IN  Out([w EXCEPT !.heap = Append(@, [proto |-> "proto"]),
                      !.registry = @ \cup {[key |-> at, value |-> value]}],
            Return(ObjectRef(at)))

RedactedValue(w, self) ==
    LET value == RegistryGet(w, self)
    IN  IF value = Undefined
        THEN Out(w, Throw(ErrorObj("Redacted value was not in registry", Undefined)))
        ELSE Out(w, Return(value))

(* toString, toJSON and the inspect hook, found through the prototype; an   *)
(* object without proto prints as any plain object.                         *)
RedactedProto(w, self, method) ==
    IF w.heap[self.at].proto = "proto" THEN Out(w, Return(Str("<redacted>")))
    ELSE Out(w, Return(Str("[object Object]")))

(* --------------------------------- Option ------------------------------ *)
(* NONE, the instance the module creates when it loads, is the first object *)
(* of the heap of a caller of Option.                                       *)
NONE == ObjectRef(1)
none(w) == Out(w, Return(NONE))
some(w, value) ==
    Out([w EXCEPT !.heap = Append(@, [_tag |-> "Some", value |-> value])],
        Return(ObjectRef(Len(w.heap) + 1)))
isSome(w, option) == w.heap[option.at]._tag = "Some"

(* The function a caller passes to a method of an Option: the transform of  *)
(* map, the function of andThen with the variant it returns, the predicate  *)
(* of filter with its verdict; zip takes another Option.                    *)
CallOptionFn(w, method, arg, x) ==
    LET w1 == [w EXCEPT !.fnCalls = @ + 1]
    IN  CASE method = "map" -> Out(w1, Return(Apply(arg.f, x)))
          [] method = "andThen" ->
               IF arg.returns = "Some" THEN some(w1, Apply(arg.f, x)) ELSE none(w1)
          [] method = "filter" -> Out(w1, Return(arg.keeps))

(* A None that would run the function it is given.                          *)
NoneMethodCalls(w, self, method, arg) ==
    IF method = "zip" THEN Out(w, Return(self))
    ELSE Out(CallOptionFn(w, method, arg, Undefined).w, Return(self))

(* map, andThen, filter, zip of class None                                  *)
NoneMethod(w, self, method, arg) == Out(w, Return(self))

(* map, andThen, filter, zip of class Some                                  *)
SomeMethod(w, self, method, arg) ==
    LET value == w.heap[self.at].value
    IN  CASE method = "map" ->
               LET r == CallOptionFn(w, method, arg, value)
               IN  some(r.w, r.c.value)
          [] method = "andThen" -> CallOptionFn(w, method, arg, value)
          [] method = "filter" ->
               LET r == CallOptionFn(w, method, arg, value)
               IN  IF r.c.value THEN Out(r.w, Return(self)) ELSE none(r.w)
          [] method = "zip" ->
               IF isSome(w, arg)
               THEN some(w, Array(<<value, w.heap[arg.at].value>>))
               ELSE none(w)

(* Option.all, its loop at element i with the values pushed so far.        *)
RECURSIVE OptionAll(_, _, _, _)
OptionAll(w, options, i, values) ==
    IF i > Len(options) THEN some(w, Array(values))
    ELSE IF ~isSome(w, options[i]) THEN Out(w, Return(options[i]))
         ELSE OptionAll(w, options, i + 1,
                        Append(values, w.heap[options[i].at].value))

(* A firstSome that would keep the last Some it meets.                      *)
firstSomeLast(w, options, from) ==
    LET at == {i \in 1..Len(options) : isSome(w, options[i])}
    IN  IF at = {} THEN none(w)
        ELSE Out(w, Return(options[CHOOSE i \in at : \A j \in at : j <= i]))

(* Option.firstSome, its loop at element i.                                 *)
RECURSIVE firstSome(_, _, _)
firstSome(w, options, i) ==
    IF i > Len(options) THEN none(w)
    ELSE IF isSome(w, options[i]) THEN Out(w, Return(options[i]))
         ELSE firstSome(w, options, i + 1)

(* ------------------------------ TaggedError ---------------------------- *)
(* props is undefined or an object, a function from the keys it has to      *)
(* their values.                                                            *)
getMessage(tag, props) ==
    IF props # Undefined /\ "message" \in DOMAIN props
    THEN IF props["message"].k = "string" THEN props["message"] ELSE Str(tag)
    ELSE Str(tag)

(* new TaggedErrorClass(props): super(message), the field initializers of   *)
(* _tag and name, then Object.assign(this, props).                          *)
TaggedErrorClass(w, tag, props) ==
    LET own == [_tag |-> Str(tag), name |-> Str(tag), message |-> getMessage(tag, props)]
        given == IF props = Undefined THEN {} ELSE DOMAIN props
        this == [key \in DOMAIN own \cup given |->
                    IF key \in given THEN props[key] ELSE own[key]]
    IN  Out([w EXCEPT !.heap = Append(@, this)], Return(ObjectRef(Len(w.heap) + 1)))

(* ------------------------------- the caller ---------------------------- *)
(* A behaviour is one use of the library: the caller holds some outcomes    *)
(* (the initial state), makes one call, and the job queue and the outside   *)
(* world then run the promises to their end.  call and ret record the call  *)
(* and its completion, fnCalls and fnRet the calls of the caller's function *)
(* made in it, log which of the caller's handlers ran and on what.          *)
NoFn == [ctor |-> "none"]
Call(op, self, fn, list) == [op |-> op, self |-> self, fn |-> fn, list |-> list]
NoCall == Call("none", Undefined, NoFn, <<>>)

Install(w) ==
    /\ heap' = w.heap
    /\ promises' = w.promises
    /\ asyncs' = w.asyncs
    /\ reactions' = w.reactions
    /\ aggs' = w.aggs
    /\ fnCalls' = w.fnCalls
    /\ fnRet' = w.fnRet
    /\ log' = w.log
    /\ registry' = w.registry
    /\ UNCHANGED <<highlighter, requests>>

Commit(out, c) ==
    /\ Install(out.w)
    /\ ret' = out.c
    /\ call' = c

(* The outcomes ok(v) and err(e) construct.                                 *)
ResultObjects ==
    {[_tag |-> "Ok", value |-> v] : v \in Scalars}
    \cup {[_tag |-> "Err", error |-> e] : e \in Scalars}

(* The promises of the outside world that resolve to an Ok or an Err.       *)
SourcePromises ==
    {Pending(Owes(how, v)) : how \in {"newOk", "newErr"}, v \in Scalars}

Results == {ResultRef(i) : i \in 1..Len(heap)}
EveryResult == [i \in 1..Len(heap) |-> ResultRef(i)]
EveryAsyncResult == [i \in 1..Len(asyncs) |-> AsyncRef(i)]

Idle ==
    /\ reactions = {}
    /\ aggs = <<>>
    /\ fnCalls = 0
    /\ fnRet = Undefined
    /\ log = <<>>
    /\ registry = {}
    /\ highlighter = 0
    /\ requests = <<>>
    /\ call = NoCall
    /\ ret = Return(Undefined)

(* The caller of a combinator or of try holds the receivers.                *)
Init ==
    /\ heap \in UNION {[1..n -> ResultObjects] : n \in 1..MaxReceivers}
    /\ promises = <<>>
    /\ asyncs = <<>>
    /\ Idle

(* The caller of all / partition holds the list it passes.                  *)
InitCollections ==
    /\ heap \in UNION {[1..n -> ResultObjects] : n \in 0..MaxLen}
    /\ promises = <<>>
    /\ asyncs = <<>>
    /\ Idle

(* The caller of AsyncResult.all / partition / firstOk holds AsyncResults   *)
(* over promises of the outside world, new AsyncResult(promise) each.       *)
InitAsync ==
    /\ heap = <<>>
    /\ promises \in UNION {[1..n -> SourcePromises] : n \in 0..MaxSources}
    /\ asyncs = [i \in 1..Len(promises) |-> [promise |-> i]]
    /\ Idle

(* The caller of an AsyncResult method holds the receivers, AsyncResults    *)
(* over promises of the outside world.                                      *)
InitAsyncChain ==
    /\ heap = <<>>
    /\ promises \in UNION {[1..n -> SourcePromises] : n \in 1..MaxReceivers}
    /\ asyncs = [i \in 1..Len(promises) |-> [promise |-> i]]
    /\ Idle

(* The caller of an extractor or of match holds outcomes and, over each, an *)
(* AsyncResult whose promise the outside world resolves to it.              *)
InitExtract ==
    /\ heap \in UNION {[1..n -> ResultObjects] : n \in 1..MaxReceivers}
    /\ promises = [i \in 1..Len(heap) |-> Pending(Owes("fulfill", ResultRef(i)))]
    /\ asyncs = [i \in 1..Len(heap) |-> [promise |-> i]]
    /\ Idle

(* A caller that holds nothing yet.                                         *)
InitSequence ==
    /\ heap = <<>>
    /\ promises = <<>>
    /\ asyncs = <<>>
    /\ Idle

(* Result.ok(value) / Result.err(error)                                     *)
Construct == \E x \in Scalars :
    /\ call = NoCall
    /\ \/ Commit(NewOk(World, x), Call("ok", Undefined, NoFn, <<>>))
       \/ Commit(NewErr(World, x), Call("err", Undefined, NoFn, <<>>))

(* The caller goes on to its next call, keeping every object made so far.   *)
Again ==
    /\ call # NoCall
    /\ Len(heap) + Len(promises) < MaxObjects
    /\ call' = NoCall
    /\ ret' = Return(Undefined)
    /\ fnCalls' = 0
    /\ fnRet' = Undefined
    /\ log' = <<>>
    /\ UNCHANGED <<heap, promises, asyncs, reactions, aggs, registry,
                   highlighter, requests>>

(* A caller of Redacted holds one object that make never produced; its      *)
(* calls are synchronous and follow one another.                            *)
InitRedacted ==
    /\ heap = <<[proto |-> "Object.prototype"]>>
    /\ promises = <<>>
    /\ asyncs = <<>>
    /\ Idle

Make == \E value \in Scalars \cup {Undefined} :
    /\ Cardinality(registry) < MaxWrappers
    /\ Commit(RedactedMake(World, value),
              Call("Redacted.make", Undefined, value, <<>>))

Value == \E at \in 1..Len(heap) :
    Commit(RedactedValue(World, ObjectRef(at)),
           Call("Redacted.value", ObjectRef(at), NoFn, <<>>))

Show == \E at \in 1..Len(heap), method \in {"toString", "toJSON", "inspect"} :
    Commit(RedactedProto(World, ObjectRef(at), method),
           Call(method, ObjectRef(at), NoFn, <<>>))

(* A caller of Option holds NONE and the Somes it made with Option.some.    *)
InitOption ==
    /\ heap \in {<<[_tag |-> "None"]>> \o somes :
                   somes \in UNION {[1..n -> {[_tag |-> "Some", value |-> v] :
                                                v \in Scalars}] : n \in 0..MaxSomes}}
    /\ promises = <<>>
    /\ asyncs = <<>>
    /\ Idle

Options == {ObjectRef(i) : i \in 1..Len(heap)}
OptionArgs(method) ==
    CASE method = "map" -> {[f |-> f] : f \in Transforms}
      [] method = "andThen" -> {[returns |-> r, f |-> f] :
                                   r \in {"Some", "None"}, f \in Transforms}
      [] method = "filter" -> {[keeps |-> b] : b \in BOOLEAN}
      [] method = "zip" -> Options

OptionNone ==
    /\ call = NoCall
    /\ Commit(none(World), Call("Option.none", Undefined, NoFn, <<>>))

OptionMethod == \E self \in Options, method \in {"map", "andThen", "filter", "zip"} :
    \E arg \in OptionArgs(method) :
        /\ call = NoCall
        /\ Commit(IF isSome(World, self) THEN SomeMethod(World, self, method, arg)
                  ELSE NoneMethod(World, self, method, arg),
                  Call(method, self, arg, <<>>))

OptionCollect == \E options \in UNION {[1..n -> Options] : n \in 0..MaxLen} :
    /\ call = NoCall
    /\ \/ Commit(OptionAll(World, options, 1, <<>>),
                 Call("Option.all", Undefined, NoFn, options))
       \/ Commit(firstSome(World, options, 1),
                 Call("Option.firstSome", Undefined, NoFn, options))

(* new (TaggedError(tag))(props), for the props the type admits: message of *)
(* any type, name, and a field of the caller's own.                         *)
NewTaggedError ==
    \E tag \in {"TestError", "OtherError"},
       props \in {Undefined} \cup
                 UNION {[keys -> {Str("custom message"), Str(""), Num(0), Undefined}] :
                           keys \in SUBSET {"message", "name", "foo"}} :
        /\ Len(heap) < MaxErrors
        /\ Commit(TaggedErrorClass(World, tag, props),
                  Call("new TaggedError", Str(tag), props, <<>>))

Map == \E self \in Results, fn \in MapFns :
    /\ call = NoCall
    /\ Commit(IF isOk(World, self) THEN OkMap(World, self, fn)
              ELSE ErrMap(World, self, fn),
              Call("map", self, fn, <<>>))

MapErr == \E self \in Results, fn \in MapFns :
    /\ call = NoCall
    /\ Commit(IF isOk(World, self) THEN OkMapErr(World, self, fn)
              ELSE ErrMapErr(World, self, fn),
              Call("mapErr", self, fn, <<>>))

AndThen == \E self \in Results, fn \in ChainFns :
    /\ call = NoCall
    /\ Commit(IF isOk(World, self) THEN OkAndThen(World, self, fn)
              ELSE ErrAndThen(World, self, fn),
              Call("andThen", self, fn, <<>>))

OrElse == \E self \in Results, fn \in ChainFns :
    /\ call = NoCall
    /\ Commit(IF isOk(World, self) THEN OkOrElse(World, self, fn)
              ELSE ErrOrElse(World, self, fn),
              Call("orElse", self, fn, <<>>))

Try == \E args \in TryArgs :
    /\ call = NoCall
    /\ Commit(tryCatch(World, args), Call("try", Undefined, args, <<>>))

TryPromise == \E args \in TryPromiseArgs :
    /\ call = NoCall
    /\ Commit(tryPromise(World, args), Call("tryPromise", Undefined, args, <<>>))

All ==
    /\ call = NoCall
    /\ Commit(all(World, EveryResult), Call("all", Undefined, NoFn, EveryResult))

Partition ==
    /\ call = NoCall
    /\ Commit(partition(World, EveryResult),
              Call("partition", Undefined, NoFn, EveryResult))

FirstOk ==
    /\ call = NoCall
    /\ Commit(firstOk(World, EveryResult),
              Call("firstOk", Undefined, NoFn, EveryResult))

AsyncResultAll ==
    /\ call = NoCall
    /\ Commit(AsyncAll(World, EveryAsyncResult),
              Call("AsyncResult.all", Undefined, NoFn, EveryAsyncResult))

AsyncResultPartition ==
    /\ call = NoCall
    /\ Commit(AsyncPartition(World, EveryAsyncResult),
              Call("AsyncResult.partition", Undefined, NoFn, EveryAsyncResult))

AsyncResultFirstOk ==
    /\ call = NoCall
    /\ Commit(AsyncFirstOk(World, EveryAsyncResult),
              Call("AsyncResult.firstOk", Undefined, NoFn, EveryAsyncResult))

AsyncResults == {AsyncRef(i) : i \in 1..Len(asyncs)}

AsyncResultMap == \E self \in AsyncResults, fn \in MapFns :
    /\ call = NoCall
    /\ Commit(AsyncMap(World, self, fn), Call("AsyncResult.map", self, fn, <<>>))

AsyncResultMapErr == \E self \in AsyncResults, fn \in MapFns :
    /\ call = NoCall
    /\ Commit(AsyncMapErr(World, self, fn),
              Call("AsyncResult.mapErr", self, fn, <<>>))

AsyncResultAndThen == \E self \in AsyncResults, fn \in ChainFns :
    /\ call = NoCall
    /\ Commit(AsyncAndThen(World, self, fn),
              Call("AsyncResult.andThen", self, fn, <<>>))

AsyncResultOrElse == \E self \in AsyncResults, fn \in ChainFns :
    /\ call = NoCall
    /\ Commit(AsyncOrElse(World, self, fn),
              Call("AsyncResult.orElse", self, fn, <<>>))

Unwrap == \E self \in Results :
    /\ call = NoCall
    /\ \/ Commit(unwrap(World, self), Call("unwrap", self, NoFn, <<>>))
       \/ Commit(unwrapErr(World, self), Call("unwrapErr", self, NoFn, <<>>))
       \/ \E d \in Scalars :
            Commit(unwrapOr(World, self, d), Call("unwrapOr", self, d, <<>>))

Match == \E self \in Results, handlers \in Handlers :
    /\ call = NoCall
    /\ Commit(match(World, self, handlers), Call("match", self, handlers, <<>>))

AsyncResultMatch == \E self \in AsyncResults, handlers \in Handlers :
    /\ call = NoCall
    /\ Commit(AsyncMatch(World, self, handlers),
              Call("AsyncResult.match", self, handlers, <<>>))

AsyncResultUnwrapOr == \E self \in AsyncResults, d \in Scalars :
    /\ call = NoCall
    /\ Commit(AsyncUnwrapOr(World, self, d),
              Call("AsyncResult.unwrapOr", self, d, <<>>))

(* A reader awaits the AsyncResult the call returned: await calls its then, *)
(* and the reader goes on with the value once the reaction has run.         *)
Readers == {rx \in reactions : rx.onFulfilled.fn = "await"}

Await ==
    /\ call # NoCall
    /\ ret.type = "return"
    /\ IsAsyncResult(ret.value)
    /\ Cardinality(Readers) + Len(log) < MaxReaders
    /\ Install(AsyncResultThen(World, ret.value,
                               Closure("await", Undefined), PassThrough).w)
    /\ UNCHANGED <<call, ret>>

(* The outside world settles one of the promises it owes.                   *)
Settle == \E p \in 1..Len(promises) :
    /\ promises[p].state = "pending"
    /\ promises[p].owed.how # "none"
    /\ UNCHANGED <<call, ret>>
    /\ \E w \in {SettleOwed(World, p)} : Install(w)

(* The job queue runs one reaction whose promise has settled.               *)
Job == \E rx \in reactions :
    /\ promises[rx.src].state # "pending"
    /\ UNCHANGED <<call, ret>>
    /\ \E w \in {RunReaction(World, rx)} : Install(w)

Next ==
    \/ Map \/ MapErr \/ AndThen \/ OrElse
    \/ Try \/ TryPromise
    \/ Settle \/ Job

(* ------------------------------ the worker ----------------------------- *)
(* highlighter is the variable of the module, 0 for null and otherwise the  *)
(* HighlighterCore it holds; the instance a call of createHighlighterCore   *)
(* resolves to is numbered after the request whose call it was.  requests   *)
(* holds, for each request to /source/:name, the await its handler stands   *)
(* at, whether it called createHighlighterCore, and the instance it         *)
(* rendered with (0 before that).                                           *)
(* getHighlighter() as called by request r, up to its await or its return:  *)
(* highlighter ??= await createHighlighterCore(...) reads highlighter and,  *)
(* when it is null, makes the call and waits; otherwise the function        *)
(* returns highlighter and the handler renders with it.                     *)
getHighlighter(r) ==
    IF highlighter = 0
    THEN [requests EXCEPT ![r].pc = "createHighlighterCore", ![r].created = TRUE]
    ELSE [requests EXCEPT ![r].pc = "html", ![r].hl = highlighter]

(* A request arrives: the handler looks the item up and awaits the fetch    *)
(* of its JSON, or answers notFound.                                        *)
SourceRoute == \E name \in {"result", "nope"} :
    /\ Len(requests) < MaxRequests
    /\ requests' = Append(requests,
                          [name |-> name,
                           pc |-> IF name = "result" THEN "fetch" ELSE "notFound",
                           created |-> FALSE,
                           hl |-> 0])
    /\ UNCHANGED <<heap, promises, asyncs, reactions, aggs, fnCalls, fnRet, log,
                   registry, highlighter, call, ret>>

(* ASSETS.fetch resolves: notFound unless response.ok, else await json().   *)
AssetFetched == \E r \in 1..Len(requests), ok \in BOOLEAN :
    /\ requests[r].pc = "fetch"
    /\ requests' = [requests EXCEPT ![r].pc = IF ok THEN "json" ELSE "notFound"]
    /\ UNCHANGED <<heap, promises, asyncs, reactions, aggs, fnCalls, fnRet, log,
                   registry, highlighter, call, ret>>

(* response.json() resolves: the handler calls getHighlighter().            *)
JsonParsed == \E r \in 1..Len(requests) :
    /\ requests[r].pc = "json"
    /\ requests' = getHighlighter(r)
    /\ UNCHANGED <<heap, promises, asyncs, reactions, aggs, fnCalls, fnRet, log,
                   registry, highlighter, call, ret>>

(* The promise of createHighlighterCore resolves: getHighlighter assigns    *)
(* the instance to highlighter and returns highlighter; the handler         *)
(* renders with what it got.                                                *)
HighlighterCreated == \E r \in 1..Len(requests) :
    /\ requests[r].pc = "createHighlighterCore"
    /\ highlighter' = r
    /\ requests' = [requests EXCEPT ![r].pc = "html", ![r].hl = r]
    /\ UNCHANGED <<heap, promises, asyncs, reactions, aggs, fnCalls, fnRet, log,
                   registry, call, ret>>

NextWorker == SourceRoute \/ AssetFetched \/ JsonParsed \/ HighlighterCreated

SpecWorker == InitSequence /\ [][NextWorker]_vars

Spec == Init /\ [][Next]_vars

NextCollections == All \/ Partition \/ FirstOk

SpecCollections == InitCollections /\ [][NextCollections]_vars

NextAsync ==
    \/ AsyncResultAll \/ AsyncResultPartition \/ AsyncResultFirstOk
    \/ Settle \/ Job

SpecAsync == InitAsync /\ [][NextAsync]_vars

NextAsyncChain ==
    \/ AsyncResultMap \/ AsyncResultMapErr
    \/ AsyncResultAndThen \/ AsyncResultOrElse
    \/ Settle \/ Job

SpecAsyncChain == InitAsyncChain /\ [][NextAsyncChain]_vars

(* One link of a chain over sources that are still pending.  The event     *)
(* loop does not stop while something is due: a promise the outside world   *)
(* owes is settled, or the job queue runs a reaction.                      *)
NextLive ==
    \/ AsyncResultMap \/ AsyncResultMapErr
    \/ AsyncResultAndThen \/ AsyncResultOrElse
    \/ AsyncResultAll \/ AsyncResultPartition \/ AsyncResultFirstOk
    \/ Settle \/ Job

SpecLive ==
    InitAsyncChain /\ [][NextLive]_vars /\ WF_vars(Settle \/ Job)

NextExtract ==
    \/ Unwrap \/ AsyncResultUnwrapOr
    \/ Match \/ AsyncResultMatch
    \/ Settle \/ Job

SpecExtract == InitExtract /\ [][NextExtract]_vars

NextReaders == AsyncResultMap \/ Await \/ Settle \/ Job

SpecReaders == InitAsyncChain /\ [][NextReaders]_vars

NextSequence ==
    \/ Construct \/ Again
    \/ Map \/ MapErr \/ AndThen \/ OrElse
    \/ Unwrap \/ Try
    \/ All \/ Partition \/ FirstOk
    \/ Settle \/ Job

SpecSequence == InitSequence /\ [][NextSequence]_vars

NextRedacted == Make \/ Value \/ Show

SpecRedacted == InitRedacted /\ [][NextRedacted]_vars

NextOption == OptionNone \/ OptionMethod \/ OptionCollect

SpecOption == InitOption /\ [][NextOption]_vars

NextTagged == NewTaggedError

SpecTagged == InitSequence /\ [][NextTagged]_vars

(* ============================== the claims ============================= *)
(* What the claims read off a state.                                       *)
Self == heap[call.self.at]
Returned(x) == ret = Return(x)
ReturnedAsync == ret.type = "return" /\ IsAsyncResult(ret.value)
(* The promise behind the AsyncResult the call returned.                    *)
RetPromise == promises[asyncs[ret.value.at].promise]

(* C1: for every fn that returns a promise, async or plain, Ok(v).map(fn)   *)
(* and Err(e).map(fn) both return an AsyncResult; the Ok one resolves to Ok *)
(* of the awaited fn(v), the Err one to an Err with the same error e.       *)
C1_MapWithPromiseFnIsAsync ==
    (call.op = "map" /\ call.fn.returns = "promise") =>
        /\ ReturnedAsync
        /\ RetPromise.state # "rejected"
        /\ RetPromise.state = "fulfilled" =>
             /\ IsResult(RetPromise.value)
             /\ heap[RetPromise.value.at] =
                  IF Self._tag = "Ok"
                  THEN [_tag |-> "Ok", value |-> Apply(call.fn.f, Self.value)]
                  ELSE [_tag |-> "Err", error |-> Self.error]

(* C2 as stated: for every Err r and every f, r.map(f) returns r itself and *)
(* never calls f.                                                          *)
C2_ErrMapReturnsSelf ==
    (call.op = "map" /\ Self._tag = "Err") =>
        /\ Returned(call.self)
        /\ fnCalls = 0

(* C2 as amended: r.map(f) never calls f; it returns r itself unless f is   *)
(* an async function, and then an AsyncResult already resolved to r itself. *)
C2_ErrMapNoOp ==
    (call.op = "map" /\ Self._tag = "Err") =>
        /\ fnCalls = 0
        /\ IF call.fn.ctor = "AsyncFunction"
           THEN ReturnedAsync /\ RetPromise = Fulfilled(call.self)
           ELSE Returned(call.self)

C2_Witness ==
    /\ call.op = "map"
    /\ Self._tag = "Err"
    /\ call.fn.ctor = "Function"
    /\ call.fn.returns = "promise"
    /\ Returned(call.self)

(* C3: Result.try never throws, whatever the thunk and the catch handler    *)
(* do: the call returns an Ok or an Err.                                    *)
C3_TryNeverThrows ==
    call.op = "try" =>
        /\ ret.type = "return"
        /\ IsResult(ret.value)

(* C4: Result.tryPromise lets no fault escape: the call does not throw, and *)
(* the AsyncResult it returns resolves to an Ok or an Err and never rejects. *)
C4_TryPromiseNeverFaults ==
    call.op = "tryPromise" =>
        /\ ReturnedAsync
        /\ RetPromise.state # "rejected"
        /\ RetPromise.state = "fulfilled" => IsResult(RetPromise.value)

(* C6: for every Err r, r.andThen(fn) never calls fn; with a synchronous fn *)
(* it returns r itself, with an asynchronous fn (an async function, or one  *)
(* returning an AsyncResult or a promise of a Result) an AsyncResult that   *)
(* resolves to an Err carrying r's error.                                   *)
C6_ErrAndThenNoOp ==
    (call.op = "andThen" /\ Self._tag = "Err") =>
        /\ fnCalls = 0
        /\ IF IsAsyncChainFn(call.fn)
           THEN /\ ReturnedAsync
                /\ RetPromise.state # "rejected"
                /\ RetPromise.state = "fulfilled" =>
                     /\ IsResult(RetPromise.value)
                     /\ heap[RetPromise.value.at] = Self
           ELSE Returned(call.self)

(* C7: for every Ok r, r.orElse(fn) never calls fn; with a synchronous fn   *)
(* it returns r itself, with an asynchronous fn an AsyncResult resolving to *)
(* an Ok carrying r's value.                                                *)
C7_OkOrElseNoOp ==
    (call.op = "orElse" /\ Self._tag = "Ok") =>
        /\ fnCalls = 0
        /\ IF IsAsyncChainFn(call.fn)
           THEN /\ ReturnedAsync
                /\ RetPromise.state # "rejected"
                /\ RetPromise.state = "fulfilled" =>
                     /\ IsResult(RetPromise.value)
                     /\ heap[RetPromise.value.at] = Self
           ELSE Returned(call.self)

(* C8: Ok(v).andThen(fn) calls fn(v) exactly once; a plain Result from fn   *)
(* is returned as it is; an AsyncResult or a Promise of a Result from fn    *)
(* gives an AsyncResult whose awaited value is a plain Ok or Err, never a   *)
(* nested AsyncResult or Promise.  Err(e).orElse(fn) likewise with fn(e).   *)
C8_Chains ==
    \/ call.op = "andThen" /\ Self._tag = "Ok"
    \/ call.op = "orElse" /\ Self._tag = "Err"

C8_Made(o) == o._tag = call.fn.tag /\ Payload(o) = Apply(call.fn.f, Payload(Self))

C8_ChainFlattens ==
    C8_Chains =>
        /\ fnCalls = 1
        /\ ret.type = "return"
        /\ IF IsResult(fnRet)
           THEN Returned(fnRet) /\ C8_Made(heap[ret.value.at])
           ELSE /\ IsAsyncResult(ret.value)
                /\ IsAsyncResult(fnRet) => ret.value = fnRet
                /\ RetPromise.state # "rejected"
                /\ RetPromise.state = "fulfilled" =>
                     /\ IsResult(RetPromise.value)
                     /\ C8_Made(heap[RetPromise.value.at])

C8_Witness ==
    /\ call.op = "andThen"
    /\ Self._tag = "Ok"
    /\ call.fn.ctor = "AsyncFunction"
    /\ call.fn.body = "AsyncResult"
    /\ ReturnedAsync
    /\ RetPromise.state = "fulfilled"
    /\ IsResult(RetPromise.value)

(* The outcomes a list of references names, and their payloads in order.   *)
Objects(refs) == [i \in 1..Len(refs) |-> heap[refs[i].at]]
IsOkObject(o) == o._tag = "Ok"
IsErrObject(o) == o._tag = "Err"
ValuesOf(objs) ==
    LET oks == SelectSeq(objs, IsOkObject)
    IN  [i \in 1..Len(oks) |-> oks[i].value]
ErrorsOf(objs) ==
    LET errs == SelectSeq(objs, IsErrObject)
    IN  [i \in 1..Len(errs) |-> errs[i].error]
ErrsAt(objs) == {i \in 1..Len(objs) : objs[i]._tag = "Err"}
OksAt(objs) == {i \in 1..Len(objs) : objs[i]._tag = "Ok"}
Lowest(S) == CHOOSE i \in S : \A j \in S : i <= j

(* C5: whatever the order in which the inputs resolve, AsyncResult.all,     *)
(* partition and firstOk resolve to what Result.all, partition and firstOk  *)
(* give on the resolved outcomes taken in input order: for all, the values  *)
(* in input order, or the Err of the lowest input index.                    *)
C5_Settled == [i \in 1..Len(call.list) |->
                  promises[asyncs[call.list[i].at].promise].value]

C5_Resolved ==
    /\ call.op \in {"AsyncResult.all", "AsyncResult.partition",
                    "AsyncResult.firstOk"}
    /\ RetPromise.state = "fulfilled"

C5_AsyncCollectionsKeepInputOrder ==
    C5_Resolved =>
        LET objs == Objects(C5_Settled)
            got == RetPromise.value
        IN  /\ IsResult(got)
            /\ call.op = "AsyncResult.all" =>
                 IF ErrsAt(objs) # {}
                 THEN got = C5_Settled[Lowest(ErrsAt(objs))]
                 ELSE heap[got.at] = [_tag |-> "Ok", value |-> Array(ValuesOf(objs))]
            /\ call.op = "AsyncResult.partition" =>
                 IF ErrsAt(objs) # {}
                 THEN heap[got.at] = [_tag |-> "Err", error |-> Array(ErrorsOf(objs))]
                 ELSE heap[got.at] = [_tag |-> "Ok", value |-> Array(ValuesOf(objs))]
            /\ call.op = "AsyncResult.firstOk" =>
                 IF OksAt(objs) # {}
                 THEN got = C5_Settled[Lowest(OksAt(objs))]
                 ELSE got = C5_Settled[Len(objs)]

(* Two inputs that resolve to different Errs, the second one first.         *)
C5_Witness ==
    /\ call.op = "AsyncResult.all"
    /\ Len(call.list) = 2
    /\ RetPromise.state = "fulfilled"
    /\ ErrsAt(Objects(C5_Settled)) = {1, 2}
    /\ C5_Settled[2].at < C5_Settled[1].at
    /\ heap[C5_Settled[1].at] # heap[C5_Settled[2].at]
    /\ RetPromise.value = C5_Settled[1]

(* C9: Result.all returns the first Err of the list itself, the same        *)
(* instance, whatever follows it; Ok of the values in input order when      *)
(* every element is Ok; Ok([]) for the empty list.                          *)
C9_AllFirstErrOrValues ==
    call.op = "all" =>
        LET objs == Objects(call.list)
        IN  /\ ret.type = "return"
            /\ IsResult(ret.value)
            /\ IF ErrsAt(objs) # {}
               THEN Returned(call.list[Lowest(ErrsAt(objs))])
               ELSE heap[ret.value.at] =
                      [_tag |-> "Ok", value |-> Array(ValuesOf(objs))]
            /\ Len(call.list) = 0 =>
                 heap[ret.value.at] = [_tag |-> "Ok", value |-> Array(<<>>)]

C9_Witness ==
    /\ call.op = "all"
    /\ Len(call.list) = 3
    /\ ErrsAt(Objects(call.list)) = {2, 3}
    /\ heap[2] # heap[3]
    /\ Returned(call.list[2])

(* C10: Result.partition returns Err of all the errors in input order when  *)
(* an element is Err, Ok of all the values in input order otherwise, Ok([]) *)
(* for the empty list; it collects as many errors as there are Errs.        *)
C10_PartitionCollectsEveryError ==
    call.op = "partition" =>
        LET objs == Objects(call.list)
            made == heap[ret.value.at]
        IN  /\ ret.type = "return"
            /\ IsResult(ret.value)
            /\ IF ErrsAt(objs) # {}
               THEN /\ made = [_tag |-> "Err", error |-> Array(ErrorsOf(objs))]
                    /\ Len(made.error.xs) = Cardinality(ErrsAt(objs))
               ELSE made = [_tag |-> "Ok", value |-> Array(ValuesOf(objs))]
            /\ Len(call.list) = 0 => made = [_tag |-> "Ok", value |-> Array(<<>>)]

C10_Witness ==
    /\ call.op = "partition"
    /\ Len(call.list) = 3
    /\ ErrsAt(Objects(call.list)) = {1, 3}
    /\ heap[1] # heap[3]
    /\ heap[ret.value.at] =
         [_tag |-> "Err", error |-> Array(<<heap[1].error, heap[3].error>>)]

(* C11: Result.firstOk over a non-empty list returns the Ok of lowest index *)
(* itself when there is one, and otherwise the last Err of the list, not    *)
(* the first; over the empty list it throws an Error whose message is       *)
(* 'firstOk called with empty array'.                                       *)
C11_FirstOkLowestOkOrLastErr ==
    call.op = "firstOk" =>
        LET objs == Objects(call.list)
        IN  IF Len(call.list) = 0
            THEN /\ ret.type = "throw"
                 /\ ret.value.k = "Error"
                 /\ ret.value.message = "firstOk called with empty array"
            ELSE IF OksAt(objs) # {}
                 THEN Returned(call.list[Lowest(OksAt(objs))])
                 ELSE Returned(call.list[Len(call.list)])

(* Three Errs with different errors at both ends: the last one comes back. *)
C11_Witness ==
    /\ call.op = "firstOk"
    /\ Len(call.list) = 3
    /\ OksAt(Objects(call.list)) = {}
    /\ heap[1] # heap[3]
    /\ Returned(call.list[3])

(* C12: Result.try returns Ok(v) when the thunk returns v.  When the thunk  *)
(* throws x, the object form returns Err(catch(x)), the evaluation of which *)
(* is the handler's own when the handler throws, and the bare-function form *)
(* returns Err of an Error whose message is 'Unexpected exception' and      *)
(* whose cause is x itself.                                                 *)
C12_Made == heap[ret.value.at]

C12_TryMapsThunkOutcome ==
    call.op = "try" =>
        LET thunk == call.fn.try
            handled == CallCatch(call.fn.catch, thunk.v)
        IN  IF ~thunk.throws
            THEN /\ ret.type = "return" /\ IsResult(ret.value)
                 /\ C12_Made = [_tag |-> "Ok", value |-> thunk.v]
            ELSE IF call.fn.form = "function"
            THEN /\ ret.type = "return" /\ IsResult(ret.value)
                 /\ C12_Made = [_tag |-> "Err",
                                error |-> ErrorObj("Unexpected exception", thunk.v)]
            ELSE IF handled.type = "return"
            THEN /\ ret.type = "return" /\ IsResult(ret.value)
                 /\ C12_Made = [_tag |-> "Err", error |-> handled.value]
            ELSE ret = handled

(* The bare form with a throwing thunk: the cause is the thrown value.      *)
C12_Witness ==
    /\ call.op = "try"
    /\ call.fn.form = "function"
    /\ call.fn.try.throws
    /\ ret.type = "return"
    /\ C12_Made._tag = "Err"
    /\ C12_Made.error.k = "Error"
    /\ C12_Made.error.cause = call.fn.try.v

(* C13: once the AsyncResult of Result.tryPromise has settled, it holds     *)
(* exactly what Result.try gives for the corresponding synchronous thunk,   *)
(* the one that returns v where the promise resolves to v and throws x      *)
(* where the promise rejects with x: Ok(v), Err(catch(x)) in the object     *)
(* form, Err(Error('Unexpected exception') with cause x) in the bare form.  *)
C13_SyncArgs ==
    [form |-> call.fn.form,
     try |-> [throws |-> call.fn.try.does = "rejects", v |-> call.fn.try.v],
     catch |-> call.fn.catch]

C13_TryPromiseMatchesTry ==
    (call.op = "tryPromise" /\ call.fn.try.does # "throws") =>
        LET sync == tryCatch(World, C13_SyncArgs)
        IN  /\ ReturnedAsync
            /\ RetPromise.state = "fulfilled" =>
                 /\ sync.c.type = "return"
                 /\ IsResult(RetPromise.value)
                 /\ heap[RetPromise.value.at] = sync.w.heap[sync.c.value.at]
            /\ RetPromise.state = "rejected" =>
                 sync.c = Throw(RetPromise.value)

(* A rejection mapped by a handler that changes the cause.                  *)
C13_Witness ==
    /\ call.op = "tryPromise"
    /\ call.fn.form = "object"
    /\ call.fn.try.does = "rejects"
    /\ call.fn.catch = [throws |-> FALSE, f |-> "next"]
    /\ RetPromise.state = "fulfilled"
    /\ heap[RetPromise.value.at] =
         [_tag |-> "Err", error |-> Apply("next", call.fn.try.v)]
    /\ Apply("next", call.fn.try.v) # call.fn.try.v

(* The receiver of a call on an AsyncResult: its promise, the variant it    *)
(* resolves to and the payload it resolves with.                            *)
SelfPromise == promises[asyncs[call.self.at].promise]
SelfOutcome ==
    IF SelfPromise.state # "pending" THEN heap[SelfPromise.value.at]
    ELSE IF SelfPromise.owed.how = "fulfill" THEN heap[SelfPromise.owed.value.at]
    ELSE IF SelfPromise.owed.how = "newOk"
         THEN [_tag |-> "Ok", value |-> SelfPromise.owed.value]
         ELSE [_tag |-> "Err", error |-> SelfPromise.owed.value]
SelfTag == SelfOutcome._tag
SelfPayload == Payload(SelfOutcome)

(* C14: on an AsyncResult that resolves to Err, map(fn) and andThen(fn)     *)
(* never call fn and resolve to an Err with the same error; on one that     *)
(* resolves to Ok, mapErr(fn) and orElse(fn) never call fn and resolve to   *)
(* an Ok with the same value.                                               *)
C14_Skips ==
    \/ call.op \in {"AsyncResult.map", "AsyncResult.andThen"} /\ SelfTag = "Err"
    \/ call.op \in {"AsyncResult.mapErr", "AsyncResult.orElse"} /\ SelfTag = "Ok"

C14_AsyncShortCircuits ==
    C14_Skips =>
        /\ fnCalls = 0
        /\ ReturnedAsync
        /\ RetPromise.state # "rejected"
        /\ RetPromise.state = "fulfilled" =>
             /\ IsResult(RetPromise.value)
             /\ heap[RetPromise.value.at]._tag = SelfTag
             /\ Payload(heap[RetPromise.value.at]) = SelfPayload

C14_Witness ==
    /\ call.op = "AsyncResult.andThen"
    /\ SelfTag = "Err"
    /\ call.fn.tag = "Ok"
    /\ RetPromise.state = "fulfilled"
    /\ heap[RetPromise.value.at] = [_tag |-> "Err", error |-> SelfPayload]

(* C15: a.map(fn), a.mapErr(fn), a.andThen(fn) and a.orElse(fn) each return *)
(* a new AsyncResult, not a, and awaiting it gives a plain Ok or Err whose  *)
(* payload is the final value of the transform, the same whether fn gives   *)
(* its value or Result directly, in a promise or in an AsyncResult; no      *)
(* promise or AsyncResult is left inside the outcome.                       *)
C15_Ops == {"AsyncResult.map", "AsyncResult.mapErr",
            "AsyncResult.andThen", "AsyncResult.orElse"}

C15_Untouched == SelfOutcome

C15_Final == Apply(call.fn.f, SelfPayload)

C15_Expected ==
    CASE call.op = "AsyncResult.map" ->
           IF SelfTag = "Ok" THEN [_tag |-> "Ok", value |-> C15_Final]
           ELSE C15_Untouched
      [] call.op = "AsyncResult.mapErr" ->
           IF SelfTag = "Err" THEN [_tag |-> "Err", error |-> C15_Final]
           ELSE C15_Untouched
      [] call.op = "AsyncResult.andThen" ->
           IF SelfTag = "Err" THEN C15_Untouched
           ELSE IF call.fn.tag = "Ok" THEN [_tag |-> "Ok", value |-> C15_Final]
           ELSE [_tag |-> "Err", error |-> C15_Final]
      [] call.op = "AsyncResult.orElse" ->
           IF SelfTag = "Ok" THEN C15_Untouched
           ELSE IF call.fn.tag = "Ok" THEN [_tag |-> "Ok", value |-> C15_Final]
           ELSE [_tag |-> "Err", error |-> C15_Final]

C15_AsyncCombinatorsNormalize ==
    call.op \in C15_Ops =>
        /\ ReturnedAsync
        /\ ret.value # call.self
        /\ asyncs[ret.value.at].promise # asyncs[call.self.at].promise
        /\ RetPromise.state # "rejected"
        /\ RetPromise.state = "fulfilled" =>
             /\ IsResult(RetPromise.value)
             /\ heap[RetPromise.value.at] = C15_Expected
             /\ ~IsPromise(Payload(heap[RetPromise.value.at]))
             /\ ~IsAsyncResult(Payload(heap[RetPromise.value.at]))

(* map with a plain function that returns a promise, awaited to the end.    *)
C15_Witness ==
    /\ call.op = "AsyncResult.map"
    /\ call.fn = [ctor |-> "Function", returns |-> "promise", f |-> "next"]
    /\ SelfTag = "Ok"
    /\ RetPromise.state = "fulfilled"
    /\ heap[RetPromise.value.at] = [_tag |-> "Ok", value |-> C15_Final]
    /\ C15_Final # SelfPayload

(* C16: mapErr mirrors map on the error side: Err(e).mapErr(fn) calls fn    *)
(* once and returns a new Err holding fn(e) when fn is synchronous; when fn *)
(* returns a promise it returns an AsyncResult that resolves to Err of the  *)
(* awaited value, as Ok.map does with Ok, never an Err holding the promise. *)
C16_MapErrMirrorsMap ==
    (call.op = "mapErr" /\ Self._tag = "Err") =>
        /\ fnCalls = 1
        /\ ret.type = "return"
        /\ ret.value # call.self
        /\ IF call.fn.returns = "value"
           THEN /\ IsResult(ret.value)
                /\ heap[ret.value.at] =
                     [_tag |-> "Err", error |-> Apply(call.fn.f, Self.error)]
           ELSE /\ IsAsyncResult(ret.value)
                /\ RetPromise.state # "rejected"
                /\ RetPromise.state = "fulfilled" =>
                     /\ IsResult(RetPromise.value)
                     /\ heap[RetPromise.value.at] =
                          [_tag |-> "Err", error |-> Apply(call.fn.f, Self.error)]

(* C17: unwrap returns the value on Ok and throws an Error 'Called unwrap   *)
(* on Err' on Err; unwrapErr returns the error on Err and throws an Error   *)
(* 'Called unwrapErr on Ok' on Ok; unwrapOr(d) returns the value on Ok and  *)
(* d on Err and never throws, and on an AsyncResult gives a promise of the  *)
(* same.                                                                    *)
C17_Throws(msg) ==
    /\ ret.type = "throw"
    /\ ret.value.k = "Error"
    /\ ret.value.message = msg

C17_ExtractorsTotalOrThrow ==
    /\ call.op = "unwrap" =>
         IF Self._tag = "Ok" THEN Returned(Self.value)
         ELSE C17_Throws("Called unwrap on Err")
    /\ call.op = "unwrapErr" =>
         IF Self._tag = "Err" THEN Returned(Self.error)
         ELSE C17_Throws("Called unwrapErr on Ok")
    /\ call.op = "unwrapOr" =>
         Returned(IF Self._tag = "Ok" THEN Self.value ELSE call.fn)
    /\ call.op = "AsyncResult.unwrapOr" =>
         /\ ret.type = "return"
         /\ IsPromise(ret.value)
         /\ promises[ret.value.at].state # "rejected"
         /\ promises[ret.value.at].state = "fulfilled" =>
              promises[ret.value.at].value =
                IF SelfTag = "Ok" THEN SelfPayload ELSE call.fn

(* The default of an AsyncResult that resolved to an Err holding another    *)
(* value.                                                                   *)
C17_Witness ==
    /\ call.op = "AsyncResult.unwrapOr"
    /\ SelfTag = "Err"
    /\ SelfPayload # call.fn
    /\ IsPromise(ret.value)
    /\ promises[ret.value.at] = Fulfilled(call.fn)

(* C20: match invokes exactly one handler exactly once, ok with the value   *)
(* on an Ok and err with the error on an Err, and returns what the handler  *)
(* returned; AsyncResult.match does the same once the AsyncResult has       *)
(* resolved and gives a promise of the handler's result, awaited when the   *)
(* handler is asynchronous.                                                 *)
C20_Chosen(o) == IF o._tag = "Ok" THEN call.fn.ok ELSE call.fn.err

C20_Ran(o) ==
    /\ fnCalls = 1
    /\ log = <<[who |-> IF o._tag = "Ok" THEN "ok" ELSE "err", arg |-> Payload(o)]>>

C20_MatchRunsOneHandlerOnce ==
    /\ call.op = "match" =>
         /\ C20_Ran(Self)
         /\ Returned(fnRet)
         /\ IF C20_Chosen(Self).returns = "value"
            THEN ret.value = Apply(C20_Chosen(Self).f, Payload(Self))
            ELSE IsPromise(ret.value)
    /\ call.op = "AsyncResult.match" =>
         /\ ret.type = "return"
         /\ IsPromise(ret.value)
         /\ log = <<>> \/ C20_Ran(SelfOutcome)
         /\ log = <<>> <=> fnCalls = 0
         /\ promises[ret.value.at].state # "rejected"
         /\ promises[ret.value.at].state = "fulfilled" =>
              /\ C20_Ran(SelfOutcome)
              /\ promises[ret.value.at].value =
                   Apply(C20_Chosen(SelfOutcome).f, SelfPayload)

(* An AsyncResult resolved to Err, matched with an async err handler.       *)
C20_Witness ==
    /\ call.op = "AsyncResult.match"
    /\ SelfTag = "Err"
    /\ call.fn.err = [ctor |-> "AsyncFunction", returns |-> "promise", f |-> "next"]
    /\ call.fn.ok.f = "id"
    /\ promises[ret.value.at].state = "fulfilled"
    /\ promises[ret.value.at].value = Apply("next", SelfPayload)
    /\ Apply("next", SelfPayload) # SelfPayload
    /\ log = <<[who |-> "err", arg |-> SelfPayload]>>

(* C19: however many readers await the AsyncResult a combinator returned,   *)
(* none included, and however their awaits interleave with its resolution,  *)
(* every reader goes on with the same resolved Result, and the transform    *)
(* runs exactly once when it has to run, never once per reader.             *)
C19_Observed == {log[i].arg : i \in 1..Len(log)}

C19_ReadersShareOneResolution ==
    call.op = "AsyncResult.map" =>
        /\ fnCalls <= 1
        /\ SelfTag = "Err" => fnCalls = 0
        /\ (SelfTag = "Ok" /\ RetPromise.state = "fulfilled") => fnCalls = 1
        /\ C19_Observed # {} =>
             /\ RetPromise.state = "fulfilled"
             /\ IsResult(RetPromise.value)
             /\ C19_Observed = {RetPromise.value}

(* Two readers have both gone on with the mapped Ok; the transform ran once. *)
C19_Witness ==
    /\ call.op = "AsyncResult.map"
    /\ SelfTag = "Ok"
    /\ Len(log) = 2
    /\ log[1] = log[2]
    /\ fnCalls = 1
    /\ heap[log[1].arg.at] = [_tag |-> "Ok", value |-> Apply(call.fn.f, SelfPayload)]

(* C18: through any sequence of constructor, combinator, extraction and     *)
(* collection calls, every outcome keeps the variant and the payload it was *)
(* constructed with, and isOk() is true exactly when isErr() is false.      *)
C18_Kept == \A i \in 1..Len(heap) : Len(heap') >= i /\ heap'[i] = heap[i]

C18_OneVariant == \A r \in Results : isOk(World, r) # isErr(World, r)

C18_OutcomesImmutable == [][C18_Kept]_vars /\ []C18_OneVariant

(* A third outcome made by mapErr from an Err that still holds its own      *)
(* error.                                                                   *)
C18_Witness ==
    /\ call.op = "mapErr"
    /\ Len(heap) = 3
    /\ Self._tag = "Err"
    /\ IsResult(ret.value)
    /\ ret.value # call.self
    /\ heap[ret.value.at]._tag = "Err"
    /\ heap[ret.value.at].error # Self.error

(* C21: for every Ok(v) and synchronous fn, map(fn) calls fn exactly once   *)
(* and returns an Ok holding fn(v), so ok(v).map(id) is an Ok with payload  *)
(* v; dually err(e).mapErr(id) is an Err with payload e.                    *)
C21_MapAppliesOnce ==
    /\ (call.op = "map" /\ Self._tag = "Ok" /\ call.fn.returns = "value") =>
         /\ fnCalls = 1
         /\ ret.type = "return"
         /\ IsResult(ret.value)
         /\ heap[ret.value.at] =
              [_tag |-> "Ok", value |-> Apply(call.fn.f, Self.value)]
         /\ call.fn.f = "id" => heap[ret.value.at] = Self
    /\ (call.op = "mapErr" /\ Self._tag = "Err" /\ call.fn.returns = "value"
          /\ call.fn.f = "id") =>
         /\ ret.type = "return"
         /\ IsResult(ret.value)
         /\ heap[ret.value.at] = Self

(* A transform that changes the value, applied once.                        *)
C21_Witness ==
    /\ call.op = "map"
    /\ Self._tag = "Ok"
    /\ call.fn = [ctor |-> "Function", returns |-> "value", f |-> "next"]
    /\ fnCalls = 1
    /\ IsResult(ret.value)
    /\ heap[ret.value.at] = [_tag |-> "Ok", value |-> Apply("next", Self.value)]
    /\ heap[ret.value.at] # Self

(* The wrappers Redacted.make has produced, and what each was given.        *)
Wrappers == {e.key : e \in registry}
Wrapped(at) == (CHOOSE e \in registry : e.key = at).value

(* C22: for every value v, Redacted.value(Redacted.make(v)) returns v;      *)
(* value throws only for an object that make never produced.                *)
C22_ValueReadsBackMake ==
    call.op = "Redacted.value" =>
        IF call.self.at \in Wrappers
        THEN Returned(Wrapped(call.self.at))
        ELSE ret.type = "throw"

(* C23: toString, toJSON and the inspect hook of a wrapper give the text    *)
(* '<redacted>' whatever was wrapped, and two wrappers differ in nothing a  *)
(* serializer can see: the wrapped value is not a property of the wrapper.  *)
C23_RedactedTextConstant ==
    /\ \A i, j \in Wrappers : heap[i] = heap[j]
    /\ (call.op \in {"toString", "toJSON", "inspect"}
          /\ call.self.at \in Wrappers) =>
         Returned(Str("<redacted>"))

(* Two wrappers of different secrets; the second one is serialized.         *)
C23_Witness ==
    /\ call.op = "toJSON"
    /\ Wrappers = {2, 3}
    /\ Wrapped(2) # Wrapped(3)
    /\ call.self.at = 3
    /\ Returned(Str("<redacted>"))

(* C24: Option.none() always returns one and the same None instance; map,   *)
(* andThen, filter and zip on None return the receiver itself, that same    *)
(* instance, and Option.all on a list containing a None returns the first   *)
(* None of the list itself, all without calling the supplied function.      *)
C24_Nones(refs) == {i \in 1..Len(refs) : heap[refs[i].at]._tag = "None"}

C24_NoneIsOneInstance ==
    /\ call.op = "Option.none" => Returned(NONE) /\ heap[NONE.at]._tag = "None"
    /\ (call.op \in {"map", "andThen", "filter", "zip"}
          /\ heap[call.self.at]._tag = "None") =>
         /\ Returned(call.self)
         /\ call.self = NONE
         /\ fnCalls = 0
    /\ (call.op = "Option.all" /\ C24_Nones(call.list) # {}) =>
         /\ Returned(call.list[Lowest(C24_Nones(call.list))])
         /\ Returned(NONE)
         /\ fnCalls = 0

(* all over a Some, the None and another Some.                              *)
C24_Witness ==
    /\ call.op = "Option.all"
    /\ Len(call.list) = 3
    /\ C24_Nones(call.list) = {2}
    /\ call.list[1] # call.list[3]
    /\ Returned(NONE)

(* C25: Option.firstSome over any list returns the Some of lowest index     *)
(* itself when there is one and None otherwise; it never throws, and gives  *)
(* None for the empty list.                                                 *)
C25_Somes(refs) == {i \in 1..Len(refs) : heap[refs[i].at]._tag = "Some"}

C25_FirstSomeLowestOrNone ==
    call.op = "Option.firstSome" =>
        /\ ret.type = "return"
        /\ IF C25_Somes(call.list) # {}
           THEN Returned(call.list[Lowest(C25_Somes(call.list))])
           ELSE Returned(NONE) /\ heap[ret.value.at]._tag = "None"

(* None, then two different Somes: the first of the two comes back.         *)
C25_Witness ==
    /\ call.op = "Option.firstSome"
    /\ Len(call.list) = 3
    /\ C25_Somes(call.list) = {2, 3}
    /\ call.list[2] # call.list[3]
    /\ Returned(call.list[2])

(* C26: for every tag and every props object, the error constructed by a    *)
(* TaggedError(tag) class has _tag equal to tag and name equal to tag, and  *)
(* its message is props.message when that is a string and the tag           *)
(* otherwise.                                                               *)
C26_TaggedErrorFields ==
    call.op = "new TaggedError" =>
        LET this == heap[ret.value.at]
        IN  /\ this._tag = call.self
            /\ this.name = call.self
            /\ this.message = getMessage(call.self.s, call.fn)

(* C27: AsyncResult.all, partition and firstOk settle only after every      *)
(* input has resolved: an input that resolves early, to an Err for all or   *)
(* to an Ok for firstOk, does not let the combined AsyncResult resolve      *)
(* while another input is pending.                                          *)
C27_Inputs == {asyncs[call.list[i].at].promise : i \in 1..Len(call.list)}

C27_AsyncCollectionsWaitForAll ==
    (call.op \in {"AsyncResult.all", "AsyncResult.partition", "AsyncResult.firstOk"}
      /\ RetPromise.state # "pending") =>
        \A p \in C27_Inputs : promises[p].state = "fulfilled"

(* all is still pending though one of its two inputs has resolved to Err.   *)
C27_Witness ==
    /\ call.op = "AsyncResult.all"
    /\ Len(call.list) = 2
    /\ RetPromise.state = "pending"
    /\ \E p \in C27_Inputs :
         /\ promises[p].state = "fulfilled"
         /\ heap[promises[p].value.at]._tag = "Err"
    /\ \E p \in C27_Inputs : promises[p].state = "pending"

(* C28: AsyncResult.firstOk called with an empty array does not throw: it   *)
(* returns an AsyncResult whose promise rejects with the Error 'firstOk     *)
(* called with empty array' and never resolves to an Ok or an Err.          *)
C28_EmptyAsyncFirstOkRejects ==
    (call.op = "AsyncResult.firstOk" /\ Len(call.list) = 0) =>
        /\ ReturnedAsync
        /\ RetPromise.state # "fulfilled"
        /\ RetPromise.state = "rejected" =>
             /\ RetPromise.value.k = "Error"
             /\ RetPromise.value.message = "firstOk called with empty array"

C28_Witness ==
    /\ call.op = "AsyncResult.firstOk"
    /\ Len(call.list) = 0
    /\ RetPromise = Rejected(ErrorObj("firstOk called with empty array", Undefined))

(* C29: when every source resolves and no transform throws, every           *)
(* AsyncResult derived through a chain of map, mapErr, andThen, orElse,     *)
(* AsyncResult.all, partition and firstOk on a non-empty list never         *)
(* rejects and eventually resolves to one Ok or Err, for good.              *)
C29_Resolved(a) ==
    LET p == promises[asyncs[a].promise]
    IN  /\ p.state = "fulfilled"
        /\ IsResult(p.value)
        /\ heap[p.value.at]._tag \in {"Ok", "Err"}

C29_NoneRejected ==
    \A a \in 1..Len(asyncs) : promises[asyncs[a].promise].state # "rejected"

C29_AllResolved == \A a \in 1..Len(asyncs) : C29_Resolved(a)

C30_Callers == {r \in 1..Len(requests) : requests[r].created}

C30_Rendered == {r \in 1..Len(requests) : requests[r].pc = "html"}

C30_HighlighterCreatedOnce ==
    /\ Cardinality(C30_Callers) <= 1
    /\ \A r1, r2 \in C30_Rendered : requests[r1].hl = requests[r2].hl

====
